---- MODULE Spec2Model ----
(***************************************************************************)
(* AtlasProxy (metadata_service/proxy/atlas_proxy.py): the proxy that      *)
(* translates Apache Atlas entities into the metadata service's domain     *)
(* model.  The backend is the variable store (guid -> entity); every proxy *)
(* method is an operator that returns its result, the driver calls it      *)
(* issued and the backend it leaves behind.                                *)
(*                                                                         *)
(* Python values: a dict is a function whose DOMAIN is its key set; a      *)
(* value that may be None is an option, <<>> for None and <<v>> for v.     *)
(***************************************************************************)
EXTENDS Integers, Sequences, FiniteSets, TLC

VARIABLES store, catalog, last, inflight

vars == <<store, catalog, last, inflight>>

(* ------------------------------ bounds -------------------------------- *)
MaxCols == 2
MaxPos == 2
MaxClassifications == 2
MaxResults == 2
MaxCollections == 2
MaxDbs == 2
MaxStreak == 2

(* ------------------------- python value helpers ----------------------- *)
None == <<>>
Some(v) == <<v>>
EmptyDict == [k \in {} |-> None]

\* dict.get(key): the value, or None when the key is absent
Get(d, k) == IF k \in DOMAIN d THEN d[k] ELSE None

\* python truthiness of an optional string
Truthy(x) == x # None /\ x # Some("")

\* a or b
PyOr(a, b) == IF Truthy(a) THEN a ELSE b

Return(v) == [kind |-> "return", value |-> v]
Raise(e) == [kind |-> "raise", exc |-> e]

Range(s) == {s[i] : i \in DOMAIN s}

\* sequences over S of length at most n
SeqsUpTo(S, n) == UNION {[1..k -> S] : k \in 0..n}

\* sequences over S without repetition, of length at most n
InjSeqsUpTo(S, n) == {s \in SeqsUpTo(S, n) : \A i, j \in DOMAIN s : s[i] = s[j] => i = j}

(* --------------------------- configuration ---------------------------- *)
ATTRS_KEY == "attributes"
REL_ATTRS_KEY == "relationshipAttributes"
TABLE_ENTITY == "Table"
DB_ATTRIBUTE == "db"
NAME_ATTRIBUTE == "qualifiedName"

(* ------------------------------ universe ------------------------------ *)
TableGuid == "table1"
ColumnGuid(i) == "column" \o ToString(i)
DbGuid(i) == "db" \o ToString(i)
UnknownGuid == "unknown"

ColumnGuids == {ColumnGuid(i) : i \in 1..MaxCols}
DbGuids == {DbGuid(i) : i \in 1..MaxDbs}

TagNames == {"PII", "TAG"}
Descriptions == {"X", "Y"}
Owners == {"a@x", "b@x"}
Positions == {None} \cup {Some(p) : p \in 1..MaxPos}

\* what the driver may raise when a lookup fails
DriverErrors == {"HttpError", "ConnectionError"}

\* the naming context handed to get_table, complete or with keys missing
FullTableInfo == [entity |-> "hive", cluster |-> "gold", db |-> "core", name |-> "t"]
PartialTableInfo == [entity |-> "hive"]
TableInfos == {FullTableInfo, PartialTableInfo}

ColumnEntity(i, pos) ==
    [guid |-> ColumnGuid(i),
     typeName |-> "COLUMN",
     attributes |->
        IF i % 2 = 1
        THEN [qualifiedName |-> Some(ColumnGuid(i)), type |-> Some("Managed"),
              description |-> Some("column description"), position |-> pos]
        ELSE [qualifiedName |-> Some(ColumnGuid(i)), dataType |-> Some("string"),
              description |-> Some("column description"), position |-> pos]]

TableAttributes == [qualifiedName |-> Some("Table1_Qualified"),
                    description |-> Some("Dummy Description"),
                    owner |-> Some("dummy@email.com")]

\* the 'columns' value of relationshipAttributes: a list of column references
ColumnRefs(cols) == [i \in DOMAIN cols |-> [guid |-> cols[i]]]

DbEntity(i) ==
    [guid |-> DbGuid(i),
     typeName |-> "Database",
     attributes |-> [qualifiedName |-> Some("schema" \o ToString(i)),
                     clusterName |-> Some("cluster" \o ToString(i))]]

\* a table entity; sections is the set of optional top-level keys it carries
TableEntity(sections, rel_attrs, classifications) ==
    LET base == [guid |-> TableGuid, typeName |-> TABLE_ENTITY, updateTime |-> Some(123)]
        full == [guid |-> TableGuid, typeName |-> TABLE_ENTITY, updateTime |-> Some(123),
                 attributes |-> TableAttributes,
                 relationshipAttributes |-> rel_attrs,
                 classifications |-> classifications]
    IN [k \in (DOMAIN base) \cup sections |-> full[k]]

Classification(t) == [typeName |-> t]

(* ------------------------------ the driver ---------------------------- *)
\* Atlas returns, next to a table entity, the entities it refers to
ReferredEntities(backend, entity) ==
    LET refs == IF REL_ATTRS_KEY \in DOMAIN entity
                THEN Get(entity[REL_ATTRS_KEY], "columns") ELSE None
        cols == IF refs = None THEN {} ELSE {c.guid : c \in Range(refs[1])}
    IN [g \in cols \cap DOMAIN backend |-> backend[g]]

\* driver.entity_guid(guid): the entity handle, or the driver's exception exc
entity_guid(guid, exc) ==
    IF guid \in DOMAIN store
    THEN Return([entity |-> store[guid],
                 referredEntities |-> ReferredEntities(store, store[guid])])
    ELSE Raise(exc)

(* ------------------------------ the proxy ----------------------------- *)
\* a handler that catches one driver exception only
_get_table_entity_narrow(table_id, exc) ==
    LET r == entity_guid(table_id, exc)
    IN IF r.kind = "raise" /\ r.exc = "HttpError" THEN Raise("NotFoundException") ELSE r

_get_table_entity(table_id, exc) ==
    LET r == entity_guid(table_id, exc)
    IN IF r.kind = "raise" THEN Raise("NotFoundException") ELSE r

_get_column(column_id, exc) ==
    LET r == entity_guid(column_id, exc)
    IN IF r.kind = "raise" THEN Raise("NotFoundException") ELSE r

\* what a proxy method leaves behind: its result (a return value or a raised
\* exception), the driver calls it issued, and the backend after it
Outcome(result, calls, backend) == [result |-> result, calls |-> calls, store |-> backend]

Call(name, data) == [call |-> name, data |-> data]

\* d[k] = v
SetItem(d, k, v) == [x \in (DOMAIN d) \cup {k} |-> IF x = k THEN v ELSE d[x]]

(* ------------------------------ get_table ----------------------------- *)
\* one Tag per entry of the 'classifications' list, in list order
Tags(table_details) ==
    LET cls == Get(table_details, "classifications")
        lst == IF cls = None THEN <<>> ELSE cls[1]
    IN [i \in 1..Len(lst) |-> [tag_name |-> lst[i].typeName, tag_type |-> "default"]]

MakeColumn(col_attrs) ==
    [name |-> Get(col_attrs, NAME_ATTRIBUTE),
     description |-> Get(col_attrs, "description"),
     col_type |-> PyOr(Get(col_attrs, "type"), Get(col_attrs, "dataType")),
     sort_order |-> Get(col_attrs, "position")]

\* one Column per entry of relationshipAttributes['columns'], in list order;
\* a reference missing from referredEntities, or a column without
\* attributes, is a KeyError
Columns(table_entity, rel_attrs) ==
    LET refs == Get(rel_attrs, "columns")
        lst == IF refs = None THEN <<>> ELSE refs[1]
        referred == table_entity.referredEntities
    IN IF \E i \in 1..Len(lst) :
              \/ lst[i].guid \notin DOMAIN referred
              \/ ATTRS_KEY \notin DOMAIN referred[lst[i].guid]
       THEN Raise("KeyError")
       ELSE Return([i \in 1..Len(lst) |-> MakeColumn(referred[lst[i].guid][ATTRS_KEY])])

\* the handler of KeyError in get_table
OnKeyError_NotFound(table_id) == Raise("NotFoundException")

OnKeyError(table_id) == Raise("BadRequest")

get_table(table_id, table_info, exc) ==
    LET found == _get_table_entity(table_id, exc)
        lookup == <<Call("entity_guid", table_id)>>
    IN IF found.kind = "raise" THEN Outcome(found, lookup, store)
       ELSE LET table_entity == found.value
                table_details == table_entity.entity
            IN IF \/ ATTRS_KEY \notin DOMAIN table_details
                  \/ REL_ATTRS_KEY \notin DOMAIN table_details
               THEN Outcome(OnKeyError(table_id), lookup, store)
               ELSE LET attrs == table_details[ATTRS_KEY]
                        rel_attrs == table_details[REL_ATTRS_KEY]
                        columns == Columns(table_entity, rel_attrs)
                    IN IF \/ columns.kind = "raise"
                          \/ ~({"entity", "cluster", "db", "name"} \subseteq DOMAIN table_info)
                       THEN Outcome(OnKeyError(table_id), lookup, store)
                       ELSE Outcome(Return(
                                [database |-> table_info.entity,
                                 cluster |-> table_info.cluster,
                                 schema |-> table_info.db,
                                 name |-> table_info.name,
                                 tags |-> Tags(table_details),
                                 description |-> Get(attrs, "description"),
                                 owners |-> <<[email |-> Get(attrs, "owner")]>>,
                                 columns |-> columns.value,
                                 last_updated_timestamp |-> Get(table_details, "updateTime")]),
                              lookup, store)

(* ----------------------- driver write operations ---------------------- *)
\* Entity.update(): the whole entity, as the caller holds it, replaces the
\* backend's
EntityUpdate(backend, handle) ==
    [backend EXCEPT ![handle.entity.guid] = handle.entity]

\* Entity.update(attribute=a): attribute a alone is sent to the backend
EntityUpdateAttribute(backend, handle, attribute) ==
    [backend EXCEPT ![handle.entity.guid] =
        [@ EXCEPT ![ATTRS_KEY] = SetItem(@, attribute, handle.entity[ATTRS_KEY][attribute])]]

\* entity_bulk_classification.create(data): the classification is attached to
\* every entity of data.entityGuids that does not carry it yet
ClassificationCreate(backend, data) ==
    [g \in DOMAIN backend |->
        IF g \notin Range(data.entityGuids) THEN backend[g]
        ELSE LET cls == Get(backend[g], "classifications")
                 lst == IF cls = None THEN <<>> ELSE cls[1]
             IN IF \E i \in 1..Len(lst) : lst[i].typeName = data.classification.typeName
                THEN backend[g]
                ELSE SetItem(backend[g], "classifications",
                             Some(Append(lst, Classification(data.classification.typeName))))]

\* entity.classifications(tag).delete(): the classification leaves the entity
ClassificationDelete(backend, guid, tag) ==
    LET cls == Get(backend[guid], "classifications")
        Keep(c) == c.typeName # tag
    IN IF cls = None THEN backend
       ELSE [backend EXCEPT ![guid] = SetItem(@, "classifications", Some(SelectSeq(cls[1], Keep)))]

(* ------------------------- owner and description ---------------------- *)
\* entity.entity[ATTRS_KEY][key] = value, on the caller's copy
SetAttribute(handle, key, value) ==
    [handle EXCEPT !.entity = [@ EXCEPT ![ATTRS_KEY] = SetItem(@, key, value)]]

\* an add_owner that keeps an owner already there
add_owner_write_keep(handle, owner) ==
    IF ATTRS_KEY \notin DOMAIN handle.entity
    THEN Outcome(Raise("KeyError"), <<>>, store)
    ELSE Outcome(Return(None), <<Call("update", handle.entity.guid)>>,
                 EntityUpdate(store,
                     IF Get(handle.entity[ATTRS_KEY], "owner") = None
                     THEN SetAttribute(handle, "owner", Some(owner)) ELSE handle))

\* add_owner after the lookup: set the owner, update the entity
add_owner_write(handle, owner) ==
    IF ATTRS_KEY \notin DOMAIN handle.entity
    THEN Outcome(Raise("KeyError"), <<>>, store)
    ELSE Outcome(Return(None), <<Call("update", handle.entity.guid)>>,
                 EntityUpdate(store, SetAttribute(handle, "owner", Some(owner))))

add_owner(table_id, owner, exc) ==
    LET found == _get_table_entity(table_id, exc)
        lookup == <<Call("entity_guid", table_id)>>
    IN IF found.kind = "raise" THEN Outcome(found, lookup, store)
       ELSE LET w == add_owner_write(found.value, owner)
            IN Outcome(w.result, lookup \o w.calls, w.store)

get_table_description(table_id, exc) ==
    LET found == _get_table_entity(table_id, exc)
        lookup == <<Call("entity_guid", table_id)>>
    IN IF found.kind = "raise" THEN Outcome(found, lookup, store)
       ELSE IF ATTRS_KEY \notin DOMAIN found.value.entity
       THEN Outcome(Raise("KeyError"), lookup, store)
       ELSE Outcome(Return(Get(found.value.entity[ATTRS_KEY], "description")), lookup, store)

\* a write that drops the new text
put_table_description_skip(handle, description) ==
    Outcome(Return(None), <<Call("update", handle.entity.guid)>>, EntityUpdate(store, handle))

\* put_table_description after the lookup: set the description, update the entity
put_table_description_write(handle, description) ==
    IF ATTRS_KEY \notin DOMAIN handle.entity
    THEN Outcome(Raise("KeyError"), <<>>, store)
    ELSE Outcome(Return(None), <<Call("update", handle.entity.guid)>>,
                 EntityUpdate(store, SetAttribute(handle, "description", Some(description))))

put_table_description(table_id, description, exc) ==
    LET found == _get_table_entity(table_id, exc)
        lookup == <<Call("entity_guid", table_id)>>
    IN IF found.kind = "raise" THEN Outcome(found, lookup, store)
       ELSE LET w == put_table_description_write(found.value, description)
            IN Outcome(w.result, lookup \o w.calls, w.store)

(* --------------------------------- tags ------------------------------- *)
\* a tagging that appends the classification to the caller's copy of the
\* entity and sends the entity
add_tag_by_update(table_id, tag, exc) ==
    LET found == _get_table_entity(table_id, exc)
        lookup == <<Call("entity_guid", table_id)>>
    IN IF found.kind = "raise" THEN Outcome(found, lookup, store)
       ELSE Outcome(Return(None),
                    lookup \o <<Call("update", found.value.entity.guid)>>,
                    ClassificationCreate(store,
                                         [classification |-> [typeName |-> tag],
                                          entityGuids |-> <<found.value.entity.guid>>]))

add_tag(table_id, tag, exc) ==
    LET found == _get_table_entity(table_id, exc)
        lookup == <<Call("entity_guid", table_id)>>
    IN IF found.kind = "raise" THEN Outcome(found, lookup, store)
       ELSE LET entity_bulk_tag == [classification |-> [typeName |-> tag],
                                    entityGuids |-> <<found.value.entity.guid>>]
            IN Outcome(Return(None),
                       lookup \o <<Call("entity_bulk_classification.create", entity_bulk_tag)>>,
                       ClassificationCreate(store, entity_bulk_tag))

\* what the driver's classification delete may do: delete and return, delete
\* and report a failure all the same, or fail
DeleteOutcomes == {"deleted", "deleted_but_raises", "fails"}

\* the body of the try block of delete_tag
delete_tag_body(table_id, tag, exc, delete_outcome) ==
    LET found == _get_table_entity(table_id, exc)
        lookup == <<Call("entity_guid", table_id)>>
    IN IF found.kind = "raise" THEN Outcome(found, lookup, store)
       ELSE LET guid == found.value.entity.guid
                guid_entity == entity_guid(guid, exc)
                again == lookup \o <<Call("entity_guid", guid)>>
            IN IF guid_entity.kind = "raise" THEN Outcome(guid_entity, again, store)
               ELSE Outcome(IF delete_outcome = "deleted" THEN Return(None) ELSE Raise(exc),
                            again \o <<Call("classifications.delete", <<guid, tag>>)>>,
                            IF delete_outcome = "fails" THEN store
                            ELSE ClassificationDelete(store, guid, tag))

\* a handler that lets the exception through
LogAndDrop_Propagate(result) == result

\* except Exception: the exception is logged, the method returns None
LogAndDrop(result) == Return(None)

\* a delete_tag whose table lookup stands before the try block
delete_tag_lookup_outside(table_id, tag, exc, delete_outcome) ==
    LET found == _get_table_entity(table_id, exc)
        body == delete_tag_body(table_id, tag, exc, delete_outcome)
    IN Outcome(IF found.kind = "raise" THEN found ELSE LogAndDrop(body.result),
               body.calls, body.store)

delete_tag(table_id, tag, exc, delete_outcome) ==
    LET body == delete_tag_body(table_id, tag, exc, delete_outcome)
    IN Outcome(LogAndDrop(body.result), body.calls, body.store)

(* -------------------------- column description ------------------------ *)
\* an update that sends the whole column
put_column_description_update_whole(handle) == EntityUpdate(store, handle)

\* column_entity.update(attribute='description')
put_column_description_update(handle) == EntityUpdateAttribute(store, handle, "description")

\* put_column_description after the lookup
put_column_description_write(handle, description) ==
    IF ATTRS_KEY \notin DOMAIN handle.entity
    THEN Outcome(Raise("KeyError"), <<>>, store)
    ELSE Outcome(Return(None), <<Call("update", <<handle.entity.guid, "description">>)>>,
                 put_column_description_update(
                     SetAttribute(handle, "description", Some(description))))

put_column_description(column_id, description, exc) ==
    LET found == _get_column(column_id, exc)
        lookup == <<Call("entity_guid", column_id)>>
    IN IF found.kind = "raise" THEN Outcome(found, lookup, store)
       ELSE LET w == put_column_description_write(found.value, description)
            IN Outcome(w.result, lookup \o w.calls, w.store)

get_column_description(column_id, exc) ==
    LET found == _get_column(column_id, exc)
        lookup == <<Call("entity_guid", column_id)>>
    IN IF found.kind = "raise" THEN Outcome(found, lookup, store)
       ELSE IF ATTRS_KEY \notin DOMAIN found.value.entity
       THEN Outcome(Raise("KeyError"), lookup, store)
       ELSE Outcome(Return(Get(found.value.entity[ATTRS_KEY], "description")), lookup, store)

(* ------------------ the column description resource ------------------ *)
\* what a handler method hands back: a body and an HTTPStatus
Response(body, status) == Return([body |-> body, status |-> status])

\* 'column {} does not exist'.format(column_id)
DoesNotExist(column_id) == [message |-> "column " \o column_id \o " does not exist"]

\* ColumnDescriptionAPI.put: the proxy's NotFoundException is the one
\* exception it catches
ColumnDescriptionAPI_put(column_id, description_val, exc) ==
    LET out == put_column_description(column_id, description_val, exc)
    IN [proxy |-> out.result,
        calls |-> out.calls,
        store |-> out.store,
        result |-> IF out.result.kind = "return" THEN Response(None, "OK")
                   ELSE IF out.result.exc = "NotFoundException"
                   THEN Response(Some(DoesNotExist(column_id)), "NOT_FOUND")
                   ELSE out.result]

\* ColumnDescriptionAPI.get
ColumnDescriptionAPI_get(column_id, exc) ==
    LET out == get_column_description(column_id, exc)
    IN [proxy |-> out.result,
        calls |-> out.calls,
        store |-> out.store,
        result |-> IF out.result.kind = "return"
                   THEN Response(Some([description |-> out.result.value]), "OK")
                   ELSE IF out.result.exc = "NotFoundException"
                   THEN Response(Some(DoesNotExist(column_id)), "NOT_FOUND")
                   ELSE Response(Some([message |-> "Internal server error!"]),
                                 "INTERNAL_SERVER_ERROR")]

(* ---------------------------- popular tables ------------------------- *)
\* the table entities a basic search returns: entity i of the result list,
\* with its db attribute absent, None, a reference without guid, a reference
\* whose guid is None, or a reference to the database ref
DbRefs == {"absent", "null", "noguid", "nullguid"} \cup DbGuids \cup {UnknownGuid}

SearchAttributes(i, ref) ==
    LET base == [qualifiedName |-> Some("Table" \o ToString(i)),
                 description |-> Some("Dummy Description")]
        with == [qualifiedName |-> Some("Table" \o ToString(i)),
                 description |-> Some("Dummy Description"),
                 db |-> CASE ref = "null" -> None
                          [] ref = "noguid" -> Some([typeName |-> "Database"])
                          [] ref = "nullguid" -> Some([typeName |-> "Database", guid |-> None])
                          [] OTHER -> Some([typeName |-> "Database", guid |-> Some(ref)])]
    IN IF ref = "absent" THEN base ELSE with

SearchEntities(refs) ==
    [i \in 1..Len(refs) |-> [typeName |-> TABLE_ENTITY, attributes |-> SearchAttributes(i, refs[i])]]

\* driver.entity_bulk(guid=guids): the entities found, handed back in ncoll
\* collections; place tells the collection each database comes back in
entity_bulk(guids, ncoll, place) ==
    [k \in 1..ncoll |->
        [entities |-> {store[g] : g \in {x \in Range(guids) \cap DOMAIN store : place[x] = k}}]]

\* attrs.get(attribute, {}).get('guid'): AttributeError when the value is None
RelId(attrs, attribute) ==
    LET ref == IF attribute \in DOMAIN attrs THEN attrs[attribute] ELSE Some(EmptyDict)
    IN IF ref = None THEN Raise("AttributeError") ELSE Return(Get(ref[1], "guid"))

\* rel_attribute_ids: the guid of every entity that has one, in entity order
RelAttributeIds(entities, attribute) ==
    LET F[i \in 0..Len(entities)] ==
            IF i = 0 THEN <<>>
            ELSE LET rel_id == RelId(entities[i].attributes, attribute).value
                 IN IF Truthy(rel_id) THEN Append(F[i - 1], rel_id[1]) ELSE F[i - 1]
    IN F[Len(entities)]

\* the dictionary left by the loop over the collections: every pass assigns
\* entities_dict anew from the collection it visits
EntitiesDict(collections) ==
    LET OfCollection(c) == [g \in {e.guid : e \in c.entities} |->
                               CHOOSE e \in c.entities : e.guid = g]
        F[k \in 0..Len(collections)] ==
            IF k = 0 THEN [g \in {} |-> None] ELSE OfCollection(collections[k])
    IN F[Len(collections)]

_get_rel_attributes_dict(entities, attribute, ncoll, place) ==
    IF \E i \in 1..Len(entities) : RelId(entities[i].attributes, attribute).kind = "raise"
    THEN Outcome(Raise("AttributeError"), <<>>, store)
    ELSE LET rel_attribute_ids == RelAttributeIds(entities, attribute)
         IN Outcome(Return(EntitiesDict(entity_bulk(rel_attribute_ids, ncoll, place))),
                    <<Call("entity_bulk", rel_attribute_ids)>>, store)

MakePopularTable(entity, dbs_dict) ==
    LET attrs == entity.attributes
        db_id == RelId(attrs, DB_ATTRIBUTE).value
        resolved == db_id # None /\ db_id[1] \in DOMAIN dbs_dict
    IN [database |-> entity.typeName,
        cluster |-> IF resolved
                    THEN Get(dbs_dict[db_id[1]].attributes, "clusterName") ELSE Some(""),
        schema |-> IF resolved
                   THEN Get(dbs_dict[db_id[1]].attributes, NAME_ATTRIBUTE) ELSE Some(""),
        name |-> Get(attrs, NAME_ATTRIBUTE),
        description |-> Get(attrs, "description")]

\* search is what search_basic.create does: it returns the entities found
\* or raises
get_popular_tables(search, ncoll, place) ==
    LET params == [typeName |-> TABLE_ENTITY, excludeDeletedEntities |-> TRUE,
                   attributes |-> <<DB_ATTRIBUTE>>]
        searched == <<Call("search_basic.create", params)>>
    IN IF search.kind = "raise"
       THEN Outcome(IF search.exc = "BadRequest" THEN Raise("BadRequest") ELSE search,
                    searched, store)
       ELSE LET table_entities == search.value
                dbs == _get_rel_attributes_dict(table_entities, DB_ATTRIBUTE, ncoll, place)
            IN IF dbs.result.kind = "raise"
               THEN Outcome(dbs.result, searched \o dbs.calls, store)
               ELSE Outcome(Return([i \in 1..Len(table_entities) |->
                                       MakePopularTable(table_entities[i], dbs.result.value)]),
                            searched \o dbs.calls, store)

(* ---------------------------- state machine -------------------------- *)
\* last is the record of the call that ended last: the method, its arguments,
\* its result, the driver calls it issued, and how many calls in a row were
\* this same call (streak, counted up to MaxStreak); for a call that ran its
\* lookup and its update as separate steps, also the backend its update found
\* (before) and the entity handle the lookup gave it (local); for a call of a
\* handler of the HTTP layer, local is the outcome of the proxy method it called
Done(op, args, out, before, local) ==
    /\ store' = out.store
    /\ last' = [op |-> op, args |-> args, result |-> out.result, calls |-> out.calls,
                streak |-> IF last.op = op /\ last.args = args /\ last.streak < MaxStreak
                           THEN last.streak + 1
                           ELSE IF last.op = op /\ last.args = args THEN MaxStreak ELSE 1,
                before |-> before, local |-> local]

NoCall == [op |-> "none", args |-> <<>>, result |-> Return(None), calls |-> <<>>,
           streak |-> 0, before |-> <<>>, local |-> None]

\* the exceptions the driver may raise on a lookup of guid: the choice is open
\* only where the lookup fails
Raised(guid) == IF guid \in DOMAIN store THEN {"HttpError"} ELSE DriverErrors

TableIds == {TableGuid, UnknownGuid}
ColumnIds == {ColumnGuid(1), UnknownGuid}

\* one in-flight call per writing method, between its lookup and its update
Writers == {"put_column_description", "put_table_description", "add_owner"}
Idle == [w \in Writers |-> None]

AllColumns == [i \in 1..MaxCols |-> ColumnGuid(i)]

Sections == {ATTRS_KEY, REL_ATTRS_KEY, "classifications"}

\* the backend holding the table entity table, every column at the given
\* position, and every database
Backend(table, pos) ==
    [g \in {TableGuid} \cup ColumnGuids \cup DbGuids |->
        IF g = TableGuid THEN table
        ELSE IF g \in ColumnGuids
        THEN ColumnEntity(CHOOSE i \in 1..MaxCols : ColumnGuid(i) = g, pos[g])
        ELSE DbEntity(CHOOSE i \in 1..MaxDbs : DbGuid(i) = g)]

FirstPosition == [g \in ColumnGuids |-> Some(1)]

\* the table with both sections, one classification and every column
PlainTable ==
    TableEntity(Sections, [db |-> [guid |-> DbGuid(1)], columns |-> Some(ColumnRefs(AllColumns))],
                Some(<<Classification("PII")>>))

\* catalog is what the backend answers to the search for tables and to the
\* bulk fetch of their databases: the search result or the exception it
\* raises, the number of collections and the collection of each database
Catalog(search, ncoll, place) == [search |-> search, ncoll |-> ncoll, place |-> place]

PlainCatalog ==
    Catalog(Return(SearchEntities(<<DbGuid(1)>>)), 1, [g \in DbGuids |-> 1])

Init ==
    /\ \E sections \in SUBSET Sections :
          store = Backend(TableEntity(sections,
                                      [db |-> [guid |-> DbGuid(1)],
                                       columns |-> Some(ColumnRefs(AllColumns))],
                                      Some(<<Classification("PII")>>)),
                          FirstPosition)
    /\ catalog = PlainCatalog
    /\ last = NoCall
    /\ inflight = Idle

GetTable ==
    \E table_id \in TableIds, table_info \in TableInfos : \E exc \in Raised(table_id) :
        /\ Done("get_table", <<table_id, table_info>>, get_table(table_id, table_info, exc), <<>>, None)
        /\ UNCHANGED <<catalog, inflight>>

AddOwner ==
    \E table_id \in TableIds, owner \in Owners : \E exc \in Raised(table_id) :
        /\ Done("add_owner", <<table_id, owner>>, add_owner(table_id, owner, exc), <<>>, None)
        /\ UNCHANGED <<catalog, inflight>>

GetTableDescription ==
    \E table_id \in TableIds : \E exc \in Raised(table_id) :
        /\ Done("get_table_description", <<table_id>>, get_table_description(table_id, exc), <<>>, None)
        /\ UNCHANGED <<catalog, inflight>>

PutTableDescription ==
    \E table_id \in TableIds, description \in Descriptions : \E exc \in Raised(table_id) :
        /\ Done("put_table_description", <<table_id, description>>,
                put_table_description(table_id, description, exc), <<>>, None)
        /\ UNCHANGED <<catalog, inflight>>

AddTag ==
    \E table_id \in TableIds, tag \in TagNames : \E exc \in Raised(table_id) :
        /\ Done("add_tag", <<table_id, tag>>, add_tag(table_id, tag, exc), <<>>, None)
        /\ UNCHANGED <<catalog, inflight>>

DeleteTag ==
    \E table_id \in TableIds, tag \in TagNames, exc \in DriverErrors,
       delete_outcome \in DeleteOutcomes :
        /\ Done("delete_tag", <<table_id, tag, delete_outcome>>,
                delete_tag(table_id, tag, exc, delete_outcome), <<>>, None)
        /\ UNCHANGED <<catalog, inflight>>

PutColumnDescription ==
    \E column_id \in ColumnIds, description \in Descriptions : \E exc \in Raised(column_id) :
        /\ Done("put_column_description", <<column_id, description>>,
                put_column_description(column_id, description, exc), <<>>, None)
        /\ UNCHANGED <<catalog, inflight>>

GetColumnDescription ==
    \E column_id \in ColumnIds : \E exc \in Raised(column_id) :
        /\ Done("get_column_description", <<column_id>>,
                get_column_description(column_id, exc), <<>>, None)
        /\ UNCHANGED <<catalog, inflight>>

GetPopularTables ==
    /\ Done("get_popular_tables", <<>>,
            get_popular_tables(catalog.search, catalog.ncoll, catalog.place), <<>>, None)
    /\ UNCHANGED <<catalog, inflight>>

Next ==
    \/ GetTable
    \/ AddOwner
    \/ GetTableDescription
    \/ PutTableDescription
    \/ AddTag
    \/ DeleteTag
    \/ PutColumnDescription
    \/ GetColumnDescription
    \/ GetPopularTables

Spec == Init /\ [][Next]_vars

(* ------------------- get_table over every table entity ---------------- *)
ColumnLists ==
    {[db |-> [guid |-> DbGuid(1)]], [db |-> [guid |-> DbGuid(1)], columns |-> None]}
    \cup {[db |-> [guid |-> DbGuid(1)], columns |-> Some(ColumnRefs(cols))] :
             cols \in InjSeqsUpTo(ColumnGuids \cup {UnknownGuid}, MaxCols)}

ClassificationLists ==
    {None} \cup {Some(lst) : lst \in SeqsUpTo({Classification(t) : t \in TagNames},
                                              MaxClassifications)}

InitTable ==
    /\ \E sections \in SUBSET Sections, rel_attrs \in ColumnLists,
          classifications \in ClassificationLists, pos \in [ColumnGuids -> Positions] :
          store = Backend(TableEntity(sections, rel_attrs, classifications), pos)
    /\ catalog = PlainCatalog
    /\ last = NoCall
    /\ inflight = Idle

SpecTable == InitTable /\ [][GetTable]_vars

(* --------------------- get_popular_tables over searches --------------- *)
Searches ==
    {Return(SearchEntities(refs)) : refs \in SeqsUpTo(DbRefs, MaxResults)}
    \cup {Raise(exc) : exc \in {"BadRequest"} \cup DriverErrors}

InitPopular ==
    /\ store = Backend(PlainTable, FirstPosition)
    /\ \E search \in Searches, ncoll \in 1..MaxCollections :
          \E place \in [DbGuids -> 1..ncoll] : catalog = Catalog(search, ncoll, place)
    /\ last = NoCall
    /\ inflight = Idle

SpecPopular == InitPopular /\ [][GetPopularTables]_vars

(* ------------- get_table and get_popular_tables, with failures -------- *)
InitErrors ==
    /\ \E sections \in SUBSET Sections :
          store = Backend(TableEntity(sections,
                                      [db |-> [guid |-> DbGuid(1)],
                                       columns |-> Some(ColumnRefs(AllColumns))],
                                      Some(<<Classification("PII")>>)),
                          FirstPosition)
    /\ \E search \in Searches : catalog = Catalog(search, 1, [g \in DbGuids |-> 1])
    /\ last = NoCall
    /\ inflight = Idle

ErrorsNext == GetTable \/ GetPopularTables

SpecErrors == InitErrors /\ [][ErrorsNext]_vars

(* ------------------ requests on the column description --------------- *)
\* a column entity that came without its 'attributes' section
BareColumn(i) == [guid |-> ColumnGuid(i), typeName |-> "COLUMN"]

InitColumnApi ==
    /\ \E pos \in [ColumnGuids -> Positions], bare \in BOOLEAN :
          store = IF bare
                  THEN [Backend(PlainTable, pos) EXCEPT ![ColumnGuid(1)] = BareColumn(1)]
                  ELSE Backend(PlainTable, pos)
    /\ catalog = PlainCatalog
    /\ last = NoCall
    /\ inflight = Idle

PutColumnDescriptionRequest ==
    \E column_id \in ColumnIds, description_val \in Descriptions :
        \E exc \in Raised(column_id) :
            LET out == ColumnDescriptionAPI_put(column_id, description_val, exc)
            IN /\ Done("ColumnDescriptionAPI.put", <<column_id, description_val>>,
                       Outcome(out.result, out.calls, out.store), <<>>, Some(out.proxy))
               /\ UNCHANGED <<catalog, inflight>>

GetColumnDescriptionRequest ==
    \E column_id \in ColumnIds : \E exc \in Raised(column_id) :
        LET out == ColumnDescriptionAPI_get(column_id, exc)
        IN /\ Done("ColumnDescriptionAPI.get", <<column_id>>,
                   Outcome(out.result, out.calls, out.store), <<>>, Some(out.proxy))
           /\ UNCHANGED <<catalog, inflight>>

ColumnApiNext == PutColumnDescriptionRequest \/ GetColumnDescriptionRequest

SpecColumnApi == InitColumnApi /\ [][ColumnApiNext]_vars

(* ------------------------- interleaved writers ------------------------ *)
\* Requests run on separate workers: between the lookup of a writing method
\* and its update, other calls and other clients of the backend may act.
ConcTarget(w) == IF w = "put_column_description" THEN ColumnGuid(1) ELSE TableGuid
ConcValues(w) == IF w = "add_owner" THEN {"a@x"} ELSE {"X"}

LookupOf(w, id, exc) ==
    IF w = "put_column_description" THEN _get_column(id, exc) ELSE _get_table_entity(id, exc)

WriteOf(w, handle, arg) ==
    CASE w = "put_column_description" -> put_column_description_write(handle, arg)
      [] w = "put_table_description" -> put_table_description_write(handle, arg)
      [] w = "add_owner" -> add_owner_write(handle, arg)

\* the first half of a writing method: the lookup
Lookup ==
    \E w \in Writers :
        \E id \in {ConcTarget(w), UnknownGuid}, arg \in ConcValues(w) : \E exc \in Raised(id) :
            LET found == LookupOf(w, id, exc)
            IN /\ inflight[w] = None
               /\ IF found.kind = "raise"
                  THEN /\ Done(w, <<id, arg>>,
                               Outcome(found, <<Call("entity_guid", id)>>, store), <<>>, None)
                       /\ UNCHANGED <<catalog, inflight>>
                  ELSE /\ inflight' = [inflight EXCEPT ![w] =
                                          Some([id |-> id, arg |-> arg, handle |-> found.value])]
                       /\ UNCHANGED <<store, catalog, last>>

\* the second half: the change of the caller's copy and the update
Update ==
    \E w \in Writers :
        /\ inflight[w] # None
        /\ LET call == inflight[w][1]
               out == WriteOf(w, call.handle, call.arg)
           IN Done(w, <<call.id, call.arg>>,
                   Outcome(out.result, <<Call("entity_guid", call.id)>> \o out.calls, out.store),
                   store, Some(call.handle))
        /\ inflight' = [inflight EXCEPT ![w] = None]
        /\ UNCHANGED catalog

\* another client of the backend moves the column
OtherWriter ==
    \E pos \in Positions :
        /\ store[ColumnGuid(1)][ATTRS_KEY].position # pos
        /\ store' = [store EXCEPT ![ColumnGuid(1)] =
                        [@ EXCEPT ![ATTRS_KEY] = SetItem(@, "position", pos)]]
        /\ last' = [NoCall EXCEPT !.op = "other_writer"]
        /\ UNCHANGED <<catalog, inflight>>

ConcNext == Lookup \/ Update \/ OtherWriter

InitConc ==
    /\ store = Backend(PlainTable, FirstPosition)
    /\ catalog = PlainCatalog
    /\ last = NoCall
    /\ inflight = Idle

ConcSpec == InitConc /\ [][ConcNext]_vars

(* ------------------------------ properties ---------------------------- *)
Returned == last.result.kind = "return"
RaisedKind(e) == last.result.kind = "raise" /\ last.result.exc = e

CallsTo(name) == {i \in DOMAIN last.calls : last.calls[i].call = name}

HasAttributes(guid) == guid \in DOMAIN store /\ ATTRS_KEY \in DOMAIN store[guid]

\* C1: a call of get_table, get_table_description, put_table_description,
\* get_column_description or put_column_description with an identifier the
\* driver cannot resolve raises NotFoundException: it raises nothing else and
\* returns nothing.
C1_UnknownIdIsNotFound ==
    (/\ last.op \in {"get_table", "get_table_description", "put_table_description",
                     "get_column_description", "put_column_description"}
     /\ last.args[1] \notin DOMAIN store)
    => RaisedKind("NotFoundException")

C1_Witness ==
    /\ last.op = "put_table_description"
    /\ last.args[1] = UnknownGuid
    /\ RaisedKind("NotFoundException")

\* C2: get_table of an identifier that resolves to an entity without its
\* 'attributes' section, without its 'relationshipAttributes' section or
\* without both raises BadRequest, not NotFoundException, and returns no Table.
C2_MalformedIsBadRequest ==
    (/\ last.op = "get_table"
     /\ last.args[1] \in DOMAIN store
     /\ \/ ATTRS_KEY \notin DOMAIN store[last.args[1]]
        \/ REL_ATTRS_KEY \notin DOMAIN store[last.args[1]])
    => RaisedKind("BadRequest")

C2_Witness ==
    /\ last.op = "get_table"
    /\ last.args[1] = TableGuid
    /\ ATTRS_KEY \in DOMAIN store[TableGuid]
    /\ REL_ATTRS_KEY \notin DOMAIN store[TableGuid]
    /\ RaisedKind("BadRequest")

\* C3: the columns of the Table get_table returns are in display order: by
\* sort_order where every column carries one, in the order of the 'columns'
\* list of relationshipAttributes where none does.
C3_ColumnsInDisplayOrder ==
    (last.op = "get_table" /\ Returned)
    => LET columns == last.result.value.columns
           given == Get(store[last.args[1]][REL_ATTRS_KEY], "columns")
           refs == IF given = None THEN <<>> ELSE given[1]
       IN /\ (\A i \in 1..Len(columns) : columns[i].sort_order # None)
                => \A i, j \in 1..Len(columns) :
                      i < j => columns[i].sort_order[1] <= columns[j].sort_order[1]
          /\ (\A i \in 1..Len(columns) : columns[i].sort_order = None)
                => /\ Len(columns) = Len(refs)
                   /\ \A i \in 1..Len(columns) : columns[i].name = Some(refs[i].guid)

\* C4: the tags of the Table get_table returns are the distinct classification
\* type names of the entity: no name twice, every name of the
\* 'classifications' list once, and none where the list is missing or None.
C4_TagsAreDistinctNames ==
    (last.op = "get_table" /\ Returned)
    => LET tags == last.result.value.tags
           cls == Get(store[last.args[1]], "classifications")
           names == IF cls = None THEN {} ELSE {c.typeName : c \in Range(cls[1])}
       IN /\ {tags[i].tag_name : i \in 1..Len(tags)} = names
          /\ \A i, j \in 1..Len(tags) : tags[i].tag_name = tags[j].tag_name => i = j

\* the database guid a search result refers to, None where it has none
ReferredDb(entity) ==
    LET attrs == entity.attributes
    IN IF DB_ATTRIBUTE \notin DOMAIN attrs THEN None
       ELSE IF attrs[DB_ATTRIBUTE] = None THEN None
       ELSE Get(attrs[DB_ATTRIBUTE][1], "guid")

\* C5: get_popular_tables issues one entity_bulk call for the whole result
\* list, and the guid list of that call holds each referenced database guid
\* once. (Stated of the calls that return.)
C5_OneBulkFetchOfDistinctGuids ==
    (last.op = "get_popular_tables" /\ catalog.search.kind = "return" /\ Returned)
    => LET entities == catalog.search.value
           referred == {ReferredDb(entities[i])[1] :
                           i \in {k \in 1..Len(entities) : ReferredDb(entities[k]) # None}}
       IN /\ Cardinality(CallsTo("entity_bulk")) = 1
          /\ \A c \in CallsTo("entity_bulk") :
                LET guids == last.calls[c].data
                IN /\ Range(guids) = referred
                   /\ \A i, j \in 1..Len(guids) : guids[i] = guids[j] => i = j

\* C6: get_popular_tables returns the whole list whatever the database
\* references of the results are: a result whose db attribute is absent or
\* None, has no guid, or has a guid the bulk fetch returns no entity for, is
\* listed with cluster '' and schema '', and no error is raised.
C6_MissingDbGivesEmptyNames ==
    (last.op = "get_popular_tables" /\ catalog.search.kind = "return")
    => LET entities == catalog.search.value
       IN /\ Returned
          /\ Len(last.result.value) = Len(entities)
          /\ \A i \in 1..Len(entities) :
                (ReferredDb(entities[i]) = None \/ ReferredDb(entities[i])[1] \notin DOMAIN store)
                => /\ last.result.value[i].cluster = Some("")
                   /\ last.result.value[i].schema = Some("")

\* C7: delete_tag of a table the driver resolves returns normally, whether
\* the driver's classification delete returns or raises, and issues that
\* delete once, for the table and the tag given.
C7_DeleteTagSwallows ==
    (last.op = "delete_tag" /\ last.args[1] \in DOMAIN store)
    => /\ last.result = Return(None)
       /\ Cardinality(CallsTo("classifications.delete")) = 1
       /\ \A c \in CallsTo("classifications.delete") :
             last.calls[c].data = <<store[last.args[1]].guid, last.args[2]>>

C7_Witness ==
    /\ last.op = "delete_tag"
    /\ last.args[1] = TableGuid
    /\ last.args[3] = "fails"
    /\ last.result = Return(None)
    /\ Cardinality(CallsTo("classifications.delete")) = 1

\* C8: put_column_description changes the description of the column and
\* nothing else: every other attribute of the column is in the backend, after
\* the update, as the backend held it just before, also where it was changed
\* by another writer after the lookup of put_column_description.
C8_OnlyDescriptionWritten ==
    (last.op = "put_column_description" /\ Returned /\ last.local # None)
    => LET column_id == last.args[1]
           was == last.before[column_id][ATTRS_KEY]
           now == store[column_id][ATTRS_KEY]
       IN /\ now.description = Some(last.args[2])
          /\ DOMAIN now = DOMAIN was \cup {"description"}
          /\ \A k \in (DOMAIN was) \ {"description"} : now[k] = was[k]

\* the column moved between the lookup and the update
C8_Witness ==
    /\ last.op = "put_column_description"
    /\ Returned
    /\ last.local # None
    /\ last.local[1].entity[ATTRS_KEY].position # last.before[last.args[1]][ATTRS_KEY].position
    /\ store[last.args[1]][ATTRS_KEY].position = last.before[last.args[1]][ATTRS_KEY].position

\* what get_table_description returns for the table of the last call
ReadBack == get_table_description(last.args[1], "HttpError").result

\* C9 as stated: put_table_description(id, X) called a second time in a row on
\* a table the driver resolves leaves the backend as the first call left it,
\* and get_table_description(id) returns X.
C9_PutTwiceIsPutOnce ==
    [][(/\ last'.op = "put_table_description"
        /\ last'.streak >= 2
        /\ last'.args[1] \in DOMAIN store)
       => (store' = store /\ ReadBack' = Return(Some(last'.args[2])))]_vars

\* C9, amended: the same of a table whose entity has its 'attributes' section.
C9_PutTwiceIsPutOnce_Attributes ==
    [][(/\ last'.op = "put_table_description"
        /\ last'.streak >= 2
        /\ HasAttributes(last'.args[1]))
       => (store' = store /\ ReadBack' = Return(Some(last'.args[2])))]_vars

C9_Witness ==
    /\ last.op = "put_table_description"
    /\ last.streak >= 2
    /\ HasAttributes(last.args[1])
    /\ Returned
    /\ ReadBack = Return(Some(last.args[2]))

\* what get_table reports as the owners of the table of the last call
ReportedOwners ==
    LET r == get_table(last.args[1], FullTableInfo, "HttpError").result
    IN IF r.kind = "return" THEN Some(r.value.owners) ELSE None

\* C10 as stated: after add_owner on a table the driver resolves, the owner of
\* the table is the email of that call, get_table reports that one owner, and
\* the call issued one entity update.
C10_OwnerIsLastAdded ==
    (last.op = "add_owner" /\ last.args[1] \in DOMAIN store)
    => /\ Returned
       /\ Get(store[last.args[1]][ATTRS_KEY], "owner") = Some(last.args[2])
       /\ ReportedOwners = Some(<<[email |-> Some(last.args[2])]>>)
       /\ Cardinality(CallsTo("update")) = 1

\* C10, amended: the same of a table whose entity has its 'attributes'
\* section, get_table reporting the one owner wherever it returns a Table.
C10_OwnerIsLastAdded_Attributes ==
    (last.op = "add_owner" /\ HasAttributes(last.args[1]))
    => /\ Returned
       /\ Get(store[last.args[1]][ATTRS_KEY], "owner") = Some(last.args[2])
       /\ ReportedOwners \in {None, Some(<<[email |-> Some(last.args[2])]>>)}
       /\ Cardinality(CallsTo("update")) = 1

\* a second add_owner in a row, and get_table reports its owner
C10_Witness ==
    /\ last.op = "add_owner"
    /\ last.streak >= 2
    /\ HasAttributes(last.args[1])
    /\ Returned
    /\ ReportedOwners = Some(<<[email |-> Some(last.args[2])]>>)

\* C11: add_tag of a table the driver resolves issues one
\* entity_bulk_classification.create call, its payload the classification of
\* type name tag and the one guid of the resolved entity, and no other call
\* but the lookup: no update and no classification delete.
C11_AddTagIsOneBulkCreate ==
    (last.op = "add_tag" /\ last.args[1] \in DOMAIN store)
    => /\ Cardinality(CallsTo("entity_bulk_classification.create")) = 1
       /\ \A c \in CallsTo("entity_bulk_classification.create") :
             last.calls[c].data = [classification |-> [typeName |-> last.args[2]],
                                   entityGuids |-> <<store[last.args[1]].guid>>]
       /\ \A i \in DOMAIN last.calls :
             last.calls[i].call \in {"entity_guid", "entity_bulk_classification.create"}
       /\ Cardinality(CallsTo("entity_guid")) = 1

\* the tag added to a table that has its sections, and it is on the entity
C11_Witness ==
    /\ last.op = "add_tag"
    /\ last.args = <<TableGuid, "TAG">>
    /\ Cardinality(CallsTo("entity_bulk_classification.create")) = 1
    /\ \E i \in DOMAIN store[TableGuid].classifications[1] :
          store[TableGuid].classifications[1][i].typeName = "TAG"

\* what get_table raises or returns for table_id in this state
ErrorOfGetTable(table_id) == get_table(table_id, FullTableInfo, "HttpError").result

\* C12: the error get_table raises for an unknown id, the error get_table
\* raises for a resolved entity that lacks a section, and the error
\* get_popular_tables raises when the backend rejects the search are of three
\* kinds, no two of them the same.
C12_ErrorKindsDistinct ==
    LET unknown == ErrorOfGetTable(UnknownGuid)
        malformed == ErrorOfGetTable(TableGuid)
    IN (/\ last.op = "get_popular_tables"
        /\ catalog.search = Raise("BadRequest")
        /\ malformed.kind = "raise")
       => /\ last.result.kind = "raise"
          /\ unknown.kind = "raise"
          /\ unknown.exc # malformed.exc
          /\ unknown.exc # last.result.exc
          /\ malformed.exc # last.result.exc

\* C13: GET and PUT on the column description answer every outcome of the
\* proxy with a status: 200 where the proxy returned, 404 and a message naming
\* the column where it raised NotFoundException, 500 and a generic message
\* where it raised anything else; the handler raises nothing.
C13_EveryOutcomeHasStatus ==
    (last.op \in {"ColumnDescriptionAPI.put", "ColumnDescriptionAPI.get"})
    => /\ Returned
       /\ LET proxy == last.local[1]
              response == last.result.value
          IN IF proxy.kind = "return" THEN response.status = "OK"
             ELSE IF proxy.exc = "NotFoundException"
             THEN /\ response.status = "NOT_FOUND"
                  /\ response.body = Some(DoesNotExist(last.args[1]))
             ELSE /\ response.status = "INTERNAL_SERVER_ERROR"
                  /\ response.body = Some([message |-> "Internal server error!"])

\* C14: every result of get_popular_tables whose database guid is among the
\* entities the bulk fetch returns carries the name of that database as
\* schema and its clusterName as cluster, in whichever of the collections of
\* the bulk fetch the database comes back.
C14_ResolvedInEveryCollection ==
    (last.op = "get_popular_tables" /\ catalog.search.kind = "return" /\ Returned)
    => LET entities == catalog.search.value
       IN \A i \in 1..Len(entities) :
             LET ref == ReferredDb(entities[i])
             IN (ref # None /\ ref[1] \in DOMAIN store)
                => /\ last.result.value[i].schema = Get(store[ref[1]].attributes, NAME_ATTRIBUTE)
                   /\ last.result.value[i].cluster = Get(store[ref[1]].attributes, "clusterName")

\* C15: put_table_description and add_owner on one table lose no write of
\* each other: where the other of the two completed between the lookup and
\* the update of a call, the backend holds, after that update, the value the
\* call wrote and the value the other wrote.
C15_NeitherWriteLost ==
    (last.op \in {"put_table_description", "add_owner"} /\ Returned /\ last.local # None)
    => LET own == IF last.op = "add_owner" THEN "owner" ELSE "description"
           other == IF last.op = "add_owner" THEN "description" ELSE "owner"
           seen == last.local[1].entity[ATTRS_KEY]
           was == last.before[last.args[1]][ATTRS_KEY]
           now == store[last.args[1]][ATTRS_KEY]
       IN Get(seen, other) # Get(was, other)
          => /\ Get(now, own) = Some(last.args[2])
             /\ Get(now, other) = Get(was, other)

\* C16: delete_tag returns normally whatever the driver calls it makes do;
\* for a table identifier the driver cannot resolve it raises no
\* NotFoundException, issues no classification delete and leaves the backend
\* as it was, the same None a successful delete returns.
C16_DeleteTagHidesUnknownTable ==
    [][(last'.op = "delete_tag")
       => /\ last'.result = Return(None)
          /\ (last'.args[1] \notin DOMAIN store)
                => /\ store' = store
                   /\ CallsTo("classifications.delete")' = {}
                   /\ Cardinality(CallsTo("entity_guid")') = 1]_vars

\* delete_tag of the unknown table, the lookup failing with a connection error
C16_Witness ==
    /\ last.op = "delete_tag"
    /\ last.args[1] = UnknownGuid
    /\ last.args[1] \notin DOMAIN store
    /\ last.result = Return(None)
    /\ last.calls = <<Call("entity_guid", UnknownGuid)>>

====
